---- MODULE Spec2Model ----
(***************************************************************************)
(* A model of main.py: the CSP builder (variables, domains, binary         *)
(* constraints, encoding variables for n-ary constraints) and the search   *)
(* entry point backtrack.                                                  *)
(*                                                                         *)
(* Python values are tagged so that integers, tuples and other objects can *)
(* live in one set, as they do in a Python set: PyInt(n) is the int n,     *)
(* PyTuple(s) the tuple with items s, NonInt an object that is no int.    *)
(***************************************************************************)
EXTENDS Integers, Sequences, FiniteSets, TLC

\* Bounds of the model.
MaxVal == 2
MaxArity == 3
MaxCalls == 3

\* The names client code declares and uses; "X1" is a legal client name.
Names == {"A", "X1"}

VARIABLES primary_variables, domains, constraints, encoding_variables_count,
          calls, op, raised, returned, before, encodes

vars == <<primary_variables, domains, constraints, encoding_variables_count,
          calls, op, raised, returned, before, encodes>>

----------------------------------------------------------------------------
\* Python values.

PyInt(n) == [tag |-> "int", val |-> <<n>>]

PyTuple(s) == [tag |-> "tuple", val |-> s]

NonInt == [tag |-> "str", val |-> <<>>]

\* isinstance(x, int)
isinstance_int(x) == x.tag = "int"

\* len(t) of a tuple
len(t) == Len(t.val)

\* t[i] with Python's 0-based index
item(t, i) == t.val[i + 1]

\* str(n) for n >= 0
Digit(d) == <<"0", "1", "2", "3", "4", "5", "6", "7", "8", "9">>[d + 1]

RECURSIVE str(_)
str(n) == IF n < 10 THEN Digit(n) ELSE str(n \div 10) \o Digit(n % 10)

\* itertools.product(*doms), as a set of tuples
RECURSIVE ProductSeqs(_)
ProductSeqs(doms) ==
    IF doms = <<>> THEN {<<>>}
    ELSE {<<h>> \o t : h \in Head(doms), t \in ProductSeqs(Tail(doms))}

product(doms) == {PyTuple(s) : s \in ProductSeqs(doms)}

\* itertools.combinations(range(n), 2), in the order it yields them
RECURSIVE combinations(_, _, _)
combinations(n, i, j) ==
    IF i >= n - 1 THEN <<>>
    ELSE IF j >= n THEN combinations(n, i + 1, i + 2)
    ELSE <<(<<i, j>>)>> \o combinations(n, i, j + 1)

\* The orders in which a Python set can be iterated.
Orders(S) ==
    {s \in [1..Cardinality(S) -> S] : \A i, j \in 1..Cardinality(S) : i # j => s[i] # s[j]}

----------------------------------------------------------------------------
\* The CSP object and the outcome of a call.

Self == [primary_variables |-> primary_variables,
         domains |-> domains,
         constraints |-> constraints,
         encoding_variables_count |-> encoding_variables_count]

\* CSP.__init__
EmptyDict == [k \in {} |-> {}]

NewCSP == [primary_variables |-> {},
           domains |-> EmptyDict,
           constraints |-> <<>>,
           encoding_variables_count |-> 0]

Constraint(variable_1, variable_2, valid_tuples) ==
    [variables |-> <<variable_1, variable_2>>, valid_tuples |-> valid_tuples]

\* dict.update({name: value})
update(d, name, value) ==
    [k \in DOMAIN d \cup {name} |-> IF k = name THEN value ELSE d[k]]

Return(self) == [self |-> self, raised |-> "none"]

\* A raise that comes after the counter was incremented.
Raise_after_increment(self, kind) ==
    [self |-> [self EXCEPT !.encoding_variables_count = @ + 1], raised |-> kind]

Raise(self, kind) == [self |-> self, raised |-> kind]

----------------------------------------------------------------------------
\* The builder's methods, as functions from the object to the object after.

add_variable(self, name, domain) ==
    [self EXCEPT !.primary_variables = @ \cup {name},
                 !.domains = update(@, name, {PyInt(v) : v \in domain})]

RECURSIVE add_variables(_, _, _)
add_variables(self, names, domain) ==
    IF names = <<>> THEN self
    ELSE add_variables(add_variable(self, Head(names), domain), Tail(names), domain)

add_binary_extensional_constraint(self, variable_1, variable_2, valid_tuples) ==
    [self EXCEPT !.constraints = Append(@, Constraint(variable_1, variable_2, valid_tuples))]

encoding_variable_name(count) == "X" \o str(count)

\* The pairs built from the first item of every tuple.
valid_pairs_first_item(valid_tuples, i) == {PyTuple(<<item(t, 0), t>>) : t \in valid_tuples}

valid_pairs(valid_tuples, i) == {PyTuple(<<item(t, i), t>>) : t \in valid_tuples}

add_extensional_constraint(self, variables, valid_tuples) ==
    LET count == self.encoding_variables_count + 1
        encoding_variable == encoding_variable_name(count)
    IN  [self EXCEPT
            !.encoding_variables_count = count,
            !.domains = update(@, encoding_variable, valid_tuples),
            !.constraints = @ \o [i \in 1..Len(variables) |->
                Constraint(variables[i], encoding_variable,
                           valid_pairs(valid_tuples, i - 1))]]

\* The predicates client code passes as truth functions:
\*   "true":     lambda *t: True
\*   "distinct": lambda *t: len(set(t)) == len(t)
Functions == {"true", "distinct"}

\* function(*t)
apply(function, t) ==
    IF function = "true" THEN TRUE
    ELSE \A i, j \in 0..(len(t) - 1) : i # j => item(t, i) # item(t, j)

add_binary_constraint_from_function(self, variable_1, variable_2, function) ==
    LET tuples == product(<<self.domains[variable_1], self.domains[variable_2]>>)
        valid_tuples == {t \in tuples : apply(function, t)}
    IN  add_binary_extensional_constraint(self, variable_1, variable_2, valid_tuples)

add_constraint_from_function(self, variables, function) ==
    LET tuples == product([i \in 1..Len(variables) |-> self.domains[variables[i]]])
        valid_tuples == {t \in tuples : apply(function, t)}
    IN  add_extensional_constraint(self, variables, valid_tuples)

\* The two kinds of truth_table add_constraint dispatches on.
Iterable(tuples) == [kind |-> "iterable", tuples |-> tuples, function |-> "none"]

Callable(function) == [kind |-> "callable", tuples |-> {}, function |-> function]

\* The test of line 247-250: x[0] and x[1] of every tuple are read, and only
\* those; a tuple shorter than 2 makes the read raise IndexError.
contains_integers(truth_table) ==
    \A x \in truth_table : isinstance_int(item(x, 0)) /\ isinstance_int(item(x, 1))

add_constraint(self, variables, truth_table) ==
    IF ~(\A i \in 1..Len(variables) : variables[i] \in self.primary_variables)
    THEN Raise(self, "UnknownVariable")
    ELSE LET N == Len(variables) IN
    IF truth_table.kind = "iterable"
    THEN LET table == truth_table.tuples IN
         IF ~(\A x \in table : len(x) = N)
         THEN Raise(self, "ArityMismatch")
         ELSE IF table # {} /\ N < 2
         THEN Raise(self, "IndexError")
         ELSE IF ~contains_integers(table)
         THEN Raise(self, "TypeMismatch")
         ELSE IF ~(table \subseteq
                   product([i \in 1..N |-> self.domains[variables[i]]]))
         THEN Raise(self, "DomainViolation")
         ELSE IF N = 2
         THEN Return(add_binary_extensional_constraint(
                         self, variables[1], variables[2], table))
         ELSE Return(add_extensional_constraint(self, variables, table))
    ELSE IF N = 2
         THEN Return(add_binary_constraint_from_function(
                         self, variables[1], variables[2], truth_table.function))
         ELSE Return(add_constraint_from_function(
                         self, variables, truth_table.function))

\* The comprehension without its filter.
diff_all_tuples(domain_1, domain_2) ==
    {PyTuple(pair) : pair \in domain_1 \X domain_2}

\* The set comprehension of diff, lines 303-308.
diff_valid_tuples(domain_1, domain_2) ==
    {PyTuple(pair) : pair \in {p \in domain_1 \X domain_2 : p[1] # p[2]}}

diff(self, variables) ==
    IF ~(\A i \in 1..Len(variables) : variables[i] \in self.primary_variables)
    THEN Raise(self, "UnknownVariable")
    ELSE LET pairs == combinations(Len(variables), 0, 1) IN
         Return([self EXCEPT !.constraints = @ \o [p \in 1..Len(pairs) |->
             LET variable_1 == variables[pairs[p][1] + 1]
                 variable_2 == variables[pairs[p][2] + 1]
             IN  Constraint(variable_1, variable_2,
                            diff_valid_tuples(self.domains[variable_1],
                                              self.domains[variable_2]))]])

\* all_diff passes the set primary_variables; order is the order in which
\* that set happens to be iterated.
all_diff(self, order) == diff(self, order)

\* sum(weights[i] * possible_tuple[i] for i in range(N))
RECURSIVE weighted(_, _, _)
weighted(weights, possible_tuple, N) ==
    IF N = 0 THEN 0
    ELSE weighted(weights, possible_tuple, N - 1)
           + weights[N] * item(possible_tuple, N - 1).val[1]

\* The comparison with < read as <=.
compare_inclusive(s, operator, value) ==
    IF operator = "<" THEN s <= value
    ELSE IF operator = "=" THEN s = value
    ELSE s > value

compare(s, operator, value) ==
    IF operator = "<" THEN s < value
    ELSE IF operator = "=" THEN s = value
    ELSE s > value

\* weights is None: [1] * N
default_weights(N) == [i \in 1..N |-> 1]

\* variables and weights are the values after the defaults of lines 337-341.
weighted_sum(self, variables, weights, operator, value) ==
    LET N == Len(variables) IN
    IF Len(variables) # Len(weights)
    THEN Raise(self, "LengthMismatch")
    ELSE IF ~(\A i \in 1..N : variables[i] \in DOMAIN self.domains)
    THEN Raise(self, "KeyError")
    ELSE LET possible_tuples == product([i \in 1..N |-> self.domains[variables[i]]]) IN
         IF \E t \in possible_tuples : \E i \in 0..(N - 1) : ~isinstance_int(item(t, i))
         THEN Raise(self, "TypeError")
         ELSE LET valid_tuples ==
                      {t \in possible_tuples : compare(weighted(weights, t, N), operator, value)}
              IN  Return(add_extensional_constraint(self, variables, valid_tuples))

\* What a call returns: every method returns None; the body of backtrack is
\* the single statement pass.
None == [kind |-> "None", assignment |-> EmptyDict]

backtrack(self, variable_choice_strategy, value_choice_strategy) == None

----------------------------------------------------------------------------
\* The arguments client code passes.

Domains == SUBSET (1..MaxVal)

VarLists == UNION {[1..n -> Names] : n \in 0..MaxArity}

NameLists == UNION {Orders(S) : S \in SUBSET Names}

TupleItems == {PyInt(v) : v \in 1..MaxVal} \cup {NonInt}

Tuples == {PyTuple(s) : s \in UNION {[1..n -> TupleItems] : n \in 0..MaxArity}}

\* Explicit truth tables: the empty one, every one-tuple table, and the
\* two-tuple tables of integer tuples of the greatest length.
IntTuples == {PyTuple(s) : s \in [1..MaxArity -> {PyInt(v) : v \in 1..MaxVal}]}

Tables ==
    {{}} \cup {{t} : t \in Tuples} \cup {{t, u} : t, u \in IntTuples}

TruthTables == {Iterable(table) : table \in Tables} \cup {Callable(f) : f \in Functions}

WeightLists == UNION {[1..n -> 1..MaxVal] : n \in 0..MaxArity}

Operators == {"<", "=", ">"}

Targets == {1, MaxVal + 1}

VariableChoiceStrategies ==
    {"lexicographic", "random", "domain", "constraint", "dynamic-constraint",
     "bound", "impact"}

ValueChoiceStrategies == {"random", "support", "less-filtering"}

----------------------------------------------------------------------------
\* The calls. op, raised, returned and before record the last call: its
\* method, the error it raised, what it returned and the object before it;
\* encodes records, for every encoding variable minted, the variables of the
\* constraint it was built for (the first variables of the constraints that
\* were appended with it).

Init ==
    /\ primary_variables = NewCSP.primary_variables
    /\ domains = NewCSP.domains
    /\ constraints = NewCSP.constraints
    /\ encoding_variables_count = NewCSP.encoding_variables_count
    /\ calls = 0
    /\ op = "__init__"
    /\ raised = "none"
    /\ returned = None
    /\ before = NewCSP
    /\ encodes = EmptyDict

Minted(self, after) ==
    IF after.encoding_variables_count = self.encoding_variables_count
    THEN encodes
    ELSE update(encodes, encoding_variable_name(after.encoding_variables_count),
                [i \in 1..(Len(after.constraints) - Len(self.constraints)) |->
                    after.constraints[Len(self.constraints) + i].variables[1]])

Call(method, result) ==
    /\ calls < MaxCalls
    /\ calls' = calls + 1
    /\ op' = method
    /\ raised' = result.raised
    /\ returned' = None
    /\ before' = Self
    /\ primary_variables' = result.self.primary_variables
    /\ domains' = result.self.domains
    /\ constraints' = result.self.constraints
    /\ encoding_variables_count' = result.self.encoding_variables_count
    /\ encodes' = Minted(Self, result.self)

AddVariable ==
    \E name \in Names, domain \in Domains :
        Call("add_variable", Return(add_variable(Self, name, domain)))

AddVariables ==
    \E names \in NameLists, domain \in Domains :
        Call("add_variables", Return(add_variables(Self, names, domain)))

AddConstraint ==
    \E variables \in VarLists, truth_table \in TruthTables :
        Call("add_constraint", add_constraint(Self, variables, truth_table))

Diff ==
    \E variables \in VarLists :
        Call("diff", diff(Self, variables))

AllDiff ==
    \E order \in Orders(primary_variables) :
        Call("all_diff", all_diff(Self, order))

\* variables = None is the set primary_variables in some iteration order,
\* weights = None is default_weights.
WeightedSum ==
    \E variables \in VarLists \cup Orders(primary_variables) :
    \E weights \in WeightLists \cup {default_weights(Len(variables))} :
    \E operator \in Operators, value \in Targets :
        Call("weighted_sum", weighted_sum(Self, variables, weights, operator, value))

Backtrack ==
    \E variable_choice_strategy \in VariableChoiceStrategies :
    \E value_choice_strategy \in ValueChoiceStrategies :
        /\ calls < MaxCalls
        /\ calls' = calls + 1
        /\ op' = "backtrack"
        /\ raised' = "none"
        /\ returned' = backtrack(Self, variable_choice_strategy, value_choice_strategy)
        /\ before' = Self
        /\ UNCHANGED <<primary_variables, domains, constraints,
                       encoding_variables_count, encodes>>

Next ==
    \/ AddVariable
    \/ AddVariables
    \/ AddConstraint
    \/ Diff
    \/ AllDiff
    \/ WeightedSum
    \/ Backtrack

Spec == Init /\ [][Next]_vars

----------------------------------------------------------------------------
\* Properties. A property about a call quantifies over the arguments of the
\* call in every state from which the model makes calls.

Open == calls < MaxCalls

\* The names of the encoding variables minted so far.
MintedNames == {"X" \o str(n) : n \in 1..encoding_variables_count}

\* self with the constraints cs appended
Appended(self, after, cs) ==
    /\ Len(after.constraints) = Len(self.constraints) + Len(cs)
    /\ \A p \in 1..Len(self.constraints) : after.constraints[p] = self.constraints[p]
    /\ \A p \in 1..Len(cs) : after.constraints[Len(self.constraints) + p] = cs[p]

\* after is self with one encoding variable E of domain T and, for each
\* position i of variables, the constraint (variables[i], E) whose valid
\* pairs are exactly the (t[i], t) for t in T.
Encoded(self, after, variables, T) ==
    \E E \in DOMAIN after.domains :
        /\ E \notin {"X" \o str(n) : n \in 1..self.encoding_variables_count}
        /\ E = "X" \o str(self.encoding_variables_count + 1)
        /\ after.encoding_variables_count = self.encoding_variables_count + 1
        /\ DOMAIN after.domains = DOMAIN self.domains \cup {E}
        /\ after.domains[E] = T
        /\ \A v \in DOMAIN self.domains \ {E} : after.domains[v] = self.domains[v]
        /\ after.primary_variables = self.primary_variables
        /\ Appended(self, after,
                    [i \in 1..Len(variables) |->
                        [variables |-> <<variables[i], E>>,
                         valid_tuples |-> {PyTuple(<<t.val[i], t>>) : t \in T}]])

C3_NoPartialMutation ==
    (op \in {"add_constraint", "diff", "weighted_sum"} /\ raised # "none")
        => Self = before

\* A call was refused on a CSP that already holds variables, constraints and
\* an encoding variable.
C3_Witness ==
    /\ op \in {"add_constraint", "diff", "weighted_sum"}
    /\ raised \in {"UnknownVariable", "ArityMismatch", "TypeMismatch",
                   "DomainViolation", "LengthMismatch"}
    /\ constraints # <<>>
    /\ encoding_variables_count > 0

\* The constraint c read with its two variables swapped.
Flipped(c) ==
    [variables |-> <<c.variables[2], c.variables[1]>>,
     valid_tuples |-> {PyTuple(<<t.val[2], t.val[1]>>) : t \in c.valid_tuples}]

\* The position pairs i < j of a list of n variables.
PositionPairs(n) == {pr \in (1..n) \X (1..n) : pr[1] < pr[2]}

\* The constraint over two variables that holds exactly the unequal pairs.
Unequal(self, u, v) ==
    [variables |-> <<u, v>>,
     valid_tuples |-> {PyTuple(<<a, b>>) : a \in self.domains[u], b \in self.domains[v]}
                         \ {PyTuple(<<a, a>>) : a \in self.domains[u]}]

\* after is self with exactly one more constraint for each pair of positions
\* of variables, holding the unequal pairs, and nothing else changed.
PairwiseDifferent(self, after, variables) ==
    LET n == Len(variables)
        old == Len(self.constraints)
        new == (old + 1)..Len(after.constraints)
    IN  /\ after.primary_variables = self.primary_variables
        /\ after.domains = self.domains
        /\ after.encoding_variables_count = self.encoding_variables_count
        /\ Len(after.constraints) = old + (n * (n - 1)) \div 2
        /\ \A p \in 1..old : after.constraints[p] = self.constraints[p]
        /\ \A pr \in PositionPairs(n) :
            LET c == Unequal(self, variables[pr[1]], variables[pr[2]])
                same == {q \in PositionPairs(n) :
                            Unequal(self, variables[q[1]], variables[q[2]])
                                \in {c, Flipped(c)}}
            IN  Cardinality({p \in new : after.constraints[p] \in {c, Flipped(c)}})
                    = Cardinality(same)

\* C6: diff(variables) over declared primary variables appends exactly one
\* binary constraint per unordered pair of the given variables, n(n-1)/2 in
\* all, each holding exactly the pairs of unequal values of the two domains,
\* and creates no encoding variable; all_diff() does the same for the whole
\* set of primary variables.
C6_DiffIsPairwise ==
    Open =>
        /\ \A variables \in VarLists :
            (\A i \in 1..Len(variables) : variables[i] \in primary_variables)
                => LET r == diff(Self, variables) IN
                   r.raised = "none" /\ PairwiseDifferent(Self, r.self, variables)
        /\ \A order \in Orders(primary_variables) :
            LET r == all_diff(Self, order) IN
            /\ r.raised = "none"
            /\ \E variables \in Orders(primary_variables) :
                   PairwiseDifferent(Self, r.self, variables)

\* diff has acted on three variables, two of them distinct with domains that
\* share a value.
C6_Witness ==
    /\ op = "diff"
    /\ raised = "none"
    /\ Len(constraints) = Len(before.constraints) + 3
    /\ \E p \in 1..Len(constraints) :
        /\ p > Len(before.constraints)
        /\ constraints[p].variables[1] # constraints[p].variables[2]
        /\ constraints[p].valid_tuples # {}
        /\ domains[constraints[p].variables[1]] \cap domains[constraints[p].variables[2]] # {}

\* The variables are declared primary variables whose domains hold integers.
IntegerVariables(variables) ==
    \A i \in 1..Len(variables) :
        /\ variables[i] \in primary_variables
        /\ \A x \in domains[variables[i]] : x.tag = "int"

DomainsOf(variables) == [i \in 1..Len(variables) |-> domains[variables[i]]]

\* C2: for declared primary variables (arity 2 and more) and a predicate P,
\* add_constraint(variables, P) and add_constraint(variables, T), T the tuples
\* of the product of the variables' domains that satisfy P, give the same
\* resulting CSP and the same outcome.
C2_FunctionAgreesWithTable ==
    \A variables \in VarLists, P \in Functions :
        (Len(variables) >= 2
            /\ \A i \in 1..Len(variables) : variables[i] \in primary_variables)
        => add_constraint(Self, variables, Callable(P))
             = add_constraint(Self, variables,
                   Iterable({t \in product(DomainsOf(variables)) : apply(P, t)}))

\* The error the four checks give when read in order, each over every
\* position of every tuple.
FirstViolated(variables, T) ==
    IF \E i \in 1..Len(variables) : variables[i] \notin primary_variables
    THEN "UnknownVariable"
    ELSE IF \E t \in T : Len(t.val) # Len(variables)
    THEN "ArityMismatch"
    ELSE IF \E t \in T : \E i \in 1..Len(t.val) : t.val[i].tag # "int"
    THEN "TypeMismatch"
    ELSE IF \E t \in T : t \notin product(DomainsOf(variables))
    THEN "DomainViolation"
    ELSE "none"

\* C4: an extensional add_constraint(variables, T) raises the error of the
\* first violated check among unknown variable, tuple length, integer items
\* at every position, membership in the product of the domains, and succeeds
\* exactly when none is violated. Stated for two variables and more; with
\* fewer, every non-empty table ends in IndexError.
C4_FirstViolatedCheck ==
    \A variables \in VarLists, T \in Tables :
        Len(variables) >= 2 =>
        add_constraint(Self, variables, Iterable(T)).raised = FirstViolated(variables, T)

\* C5: encoding-variable names are pairwise distinct and no primary variable
\* bears the name of an encoding variable.
C5_EncodingNamesDisjoint ==
    /\ Cardinality(MintedNames) = encoding_variables_count
    /\ MintedNames \cap primary_variables = {}

\* sum of weights[i] * t[i] over the first n positions
RECURSIVE Sigma(_, _, _)
Sigma(weights, t, n) ==
    IF n = 0 THEN 0 ELSE Sigma(weights, t, n - 1) + weights[n] * t.val[n].val[1]

\* The tuples of the product of the domains whose weighted sum stands in the
\* relation operator to value.
SumTable(variables, weights, operator, value) ==
    {t \in product(DomainsOf(variables)) :
        LET s == Sigma(weights, t, Len(variables)) IN
        CASE operator = "<" -> s < value
          [] operator = "=" -> s = value
          [] operator = ">" -> s > value}

C8_DuplicateRejected ==
    /\ (op = "add_variable" /\ primary_variables = before.primary_variables)
        => (raised = "DuplicateVariable" /\ Self = before)
    /\ op \in {"add_variable", "add_variables"}
        => \A name \in before.primary_variables :
               domains[name] = before.domains[name]

\* C9: the domain of every encoding variable is a subset of the product of
\* the current domains of the primary variables it encodes. Stated for the
\* states in which no primary variable bears the name of an encoding
\* variable, where the two kinds of variable are told apart by name.
C9_EncodingDomainWithinProduct ==
    MintedNames \cap primary_variables = {} =>
        \A E \in DOMAIN encodes :
            domains[E] \subseteq product(DomainsOf(encodes[E]))

\* The assignments of a value of its domain to every variable that satisfy
\* every constraint.
Solutions ==
    {a \in [DOMAIN domains -> UNION {domains[v] : v \in DOMAIN domains}] :
        /\ \A v \in DOMAIN domains : a[v] \in domains[v]
        /\ \A p \in 1..Len(constraints) :
            PyTuple(<<a[constraints[p].variables[1]], a[constraints[p].variables[2]]>>)
                \in constraints[p].valid_tuples}

\* C10: backtrack returns, for a satisfiable CSP, an assignment of the primary
\* variables that some value of every encoding variable extends to a solution,
\* and reports Unsatisfiable when there is none.
C10_BacktrackSolves ==
    op = "backtrack" =>
        \/ /\ returned.kind = "assignment"
           /\ \E a \in Solutions :
                returned.assignment = [v \in primary_variables |-> a[v]]
        \/ /\ returned.kind = "Unsatisfiable"
           /\ Solutions = {}

====
